---------------------------- MODULE Spec2Model ----------------------------
(***************************************************************************)
(* Round lifecycle and settlement engine of the betting backend:           *)
(*   - POST /api/bets/place        (src/unnamed/part_011, lines 13-224)    *)
(*   - PUT  /api/rounds/:id/result (src/routes/rounds.js, lines 415-489)   *)
(*   - calculateWinners            (src/routes/rounds.js, lines 492-613)   *)
(*   - updateRoundStatus           (src/routes/rounds.js, lines 11-99)     *)
(*   - updateRoundStatuses         (src/services/roundScheduler.js,        *)
(*                                  lines 279-360)                         *)
(*   - POST /api/rounds            (src/routes/rounds.js, lines 300-410)   *)
(*   - autoCreateRoundForHouse, autoCreateRounds                           *)
(*                                 (src/services/roundScheduler.js,        *)
(*                                  lines 363-475)                         *)
(* over the Round (src/models/Round.js), Bet (src/unnamed/part_018),       *)
(* Transaction and User.balance documents of one MongoDB store.            *)
(*                                                                         *)
(* Every handler is an async function: it runs atomically from one await   *)
(* to the next, so each action below is the code between two awaits, with  *)
(* the store access of the await it ends at.  A document that a handler    *)
(* loaded is a private copy; save() writes the paths the handler modified. *)
(***************************************************************************)
EXTENDS Integers, Sequences, FiniteSets, TLC

(***************************************************************************)
(* JavaScript values.  A path that was never set reads as undefined; a     *)
(* request may carry null.  Both are kept apart from the numbers 0..99.    *)
(***************************************************************************)
Undefined == -1
Null == -2

\* Bounds of the model.
MaxTime == 1
MaxPlaceCalls == 2
MaxResultCalls == 2
MaxCreateCalls == 2
InitBalance == 20

\* The round's single deadline is the last instant of the model's clock.
Deadline == MaxTime

\* House payout multipliers (schema defaults).
frDirectRate == 80
frHouseRate == 16
frEndingRate == 16
srDirectRate == 70
srHouseRate == 14
srEndingRate == 14
forecastDirectRate == 400
forecastHouseRate == 40
forecastEndingRate == 40

\* Limits of POST /place.
MinBetAmount == 10
MaxBetAmount == 100000
MaxEntriesPerBet == 100

Bettors == {"req1", "req2"}     \* two requests in flight of the one user
Admins == {"adm1", "adm2"}      \* two result submissions in flight

Modes == {"FR", "SR", "FORECAST"}
PlayTypes == {"DIRECT", "HOUSE", "ENDING"}

(***************************************************************************)
(* The House documents.  "h1" is the house of the round; "h2" is another   *)
(* active house, with auto-creation switched off; every other id finds no  *)
(* House.  Both houses carry the schema's default rates.                   *)
(***************************************************************************)
Houses == {"h1", "h2"}

Saturday == 6
Friday == 5

\* house.deadlineTime, '18:00', written as the digits HHMM
HouseDeadlineTime == 1800

HouseDoc(h) ==
  [isActive |-> TRUE, autoCreateRounds |-> (h = "h1"),
   operatingDays |-> {1, 2, 3, 4, 5, 6}, deadlineTime |-> HouseDeadlineTime]

\* The Round documents: "r1" is the round of today, of house "h1"; dates are
\* counted in days from today.
RoundHouse == "h1"

RoundId == "r1"

Today == 0

\* getTomorrowDate()
getTomorrowDate == Today + 1

\* the requests in flight that create rounds or evaluate statuses
Creators == {"cr1", "cr2"}     \* POST /rounds
Jobs == Creators \cup {"auto", "tick", "read"}

VARIABLES
  now,        \* the clock (new Date())
  round,      \* the stored Round document
  balance,    \* the stored User.balance
  bets,       \* the Bet collection, in creation order (a Bet's id is its index)
  txns,       \* the Transaction collection, in creation order
  bpc, bloc,  \* POST /place: position and local variables of each request
  apc, aloc,  \* PUT /:id/result: position and local variables of each request
  nPlace, nResult,   \* calls started so far
  credits,    \* history: per Bet, how many times settlement credited the balance for it
  credited,   \* history: total of the wins settlement added
  lastCall,   \* history: the body of the PUT /:id/result that returned last, while
              \* nothing has written to the store since
  created,    \* the Round documents created after the round of today, in creation order
  weekday,    \* the day of the week of today (Date.getDay())
  xpc, xloc,  \* POST /rounds, POST /rounds/auto-create, the scheduler tick and the
              \* read path: position and local variables of each
  nCreate,    \* POST /rounds calls started so far
  probe       \* a call of a win rule on its own: its arguments and its result

vars == <<now, round, balance, bets, txns, bpc, bloc, apc, aloc,
          nPlace, nResult, credits, credited, lastCall,
          created, weekday, xpc, xloc, nCreate, probe>>

roundsVars == <<created, weekday, xpc, xloc, nCreate, probe>>

store == <<round, balance, bets, txns>>


(***************************************************************************)
(* JavaScript comparisons.  A relational comparison with undefined is      *)
(* false (undefined converts to NaN); null converts to 0.                  *)
(***************************************************************************)
JsNum(x) == IF x = Null THEN 0 ELSE x

JsLT(a, b) == IF a = Undefined \/ b = Undefined THEN FALSE ELSE JsNum(a) < JsNum(b)

JsGT(a, b) == IF a = Undefined \/ b = Undefined THEN FALSE ELSE JsNum(a) > JsNum(b)

JsGE(a, b) == IF a = Undefined \/ b = Undefined THEN FALSE ELSE JsNum(a) >= JsNum(b)

\* round.frDeadline and round.srDeadline: the Round schema has the single path
\* `deadline`, so these two reads give undefined.
roundFrDeadline == Undefined

roundSrDeadline == Undefined

\* the total taken from the first entry alone
SumAmounts_First(es) == IF es = <<>> THEN 0 ELSE Head(es).amount

\* line 170: entries.reduce((sum, e) => sum + e.amount, 0)
RECURSIVE SumAmounts(_)
SumAmounts(es) == IF es = <<>> THEN 0 ELSE Head(es).amount + SumAmounts(Tail(es))

RECURSIVE SumWins(_)
SumWins(es) == IF es = <<>> THEN 0 ELSE Head(es).winAmount + SumWins(Tail(es))

(***************************************************************************)
(* POST /place, lines 55-167: the checks made on one entry, in order; the  *)
(* first failing check answers 400.                                        *)
(***************************************************************************)
EntryError(e, r, t) ==
  IF e.mode \in {"FR", "FORECAST"} /\ r.status \notin {"pending", "live"}
    THEN "First round betting is closed"
  ELSE IF e.mode \in {"FR", "FORECAST"} /\ JsGE(t, roundFrDeadline)
    THEN "First round betting time has expired"
  ELSE IF e.mode = "SR" /\ r.status \notin {"pending", "live", "fr_closed"}
    THEN "Second round betting is closed"
  ELSE IF e.mode = "SR" /\ JsGE(t, roundSrDeadline)
    THEN "Second round betting time has expired"
  ELSE IF JsLT(e.number, 0) \/ JsGT(e.number, 99)
    THEN "Bet number must be between 0 and 99"
  ELSE IF e.amount = Undefined \/ e.amount = Null
    THEN "Bet amount must be a valid number"
  ELSE IF e.amount < MinBetAmount
    THEN "Minimum bet amount"
  ELSE IF e.amount > MaxBetAmount
    THEN "Maximum bet amount"
  ELSE "ok"

RECURSIVE FirstError(_, _, _)
FirstError(es, r, t) ==
  IF es = <<>> THEN "ok"
  ELSE IF EntryError(Head(es), r, t) # "ok" THEN EntryError(Head(es), r, t)
  ELSE FirstError(Tail(es), r, t)

\* POST /place, lines 126-164: the house rate of (mode, playType); 0 when
\* neither switch matches.
PlaceRate(mode, playType) ==
  IF mode = "FR" THEN
    (IF playType = "DIRECT" THEN frDirectRate
     ELSE IF playType = "HOUSE" THEN frHouseRate
     ELSE IF playType = "ENDING" THEN frEndingRate ELSE 0)
  ELSE IF mode = "SR" THEN
    (IF playType = "DIRECT" THEN srDirectRate
     ELSE IF playType = "HOUSE" THEN srHouseRate
     ELSE IF playType = "ENDING" THEN srEndingRate ELSE 0)
  ELSE IF mode = "FORECAST" THEN
    (IF playType = "DIRECT" THEN forecastDirectRate
     ELSE IF playType = "HOUSE" THEN forecastHouseRate
     ELSE IF playType = "ENDING" THEN forecastEndingRate ELSE 0)
  ELSE 0

(***************************************************************************)
(* betEntrySchema: the validators Bet.create runs on an entry, and the     *)
(* sub-document it stores.  The schema has no frNumber and no srNumber     *)
(* path, so a stored entry reads undefined for both.                       *)
(***************************************************************************)
EntrySchemaValid(e) ==
  /\ e.number # Undefined /\ e.number # Null
  /\ e.number >= 0 /\ e.number <= 99
  /\ e.amount # Undefined /\ e.amount # Null /\ e.amount >= 0
  /\ e.playType \in PlayTypes
  /\ e.mode \in Modes

EntryCast(e) ==
  [mode |-> e.mode, playType |-> e.playType, number |-> e.number,
   frNumber |-> Undefined, srNumber |-> Undefined,
   amount |-> e.amount, potentialWin |-> e.amount * PlaceRate(e.mode, e.playType),
   isWinner |-> FALSE, winAmount |-> 0]

(***************************************************************************)
(* checkWinner: both numbers are written with two digits (padStart(2,'0')) *)
(* and compared digit by digit.                                            *)
(***************************************************************************)
\* Number.prototype.toString(): the decimal digits of n, the first one first
RECURSIVE toString(_)
toString(n) == IF n < 10 THEN <<n>> ELSE toString(n \div 10) \o <<n % 10>>

\* a padding that appends the "0"
padStart_End(str) == IF Len(str) < 2 THEN str \o <<0>> ELSE str

\* String.prototype.padStart(2, '0')
padStart(str) == IF Len(str) < 2 THEN <<0>> \o str ELSE str

\* lines 617-618: x.toString().padStart(2, '0')
Pad2(n) == padStart(toString(n))

checkWinner(entry, result) ==
  IF entry.playType = "DIRECT" THEN entry.number = result
  ELSE IF entry.playType = "HOUSE" THEN Pad2(result)[1] = Pad2(entry.number)[1]
  ELSE IF entry.playType = "ENDING" THEN Pad2(result)[2] = Pad2(entry.number)[2]
  ELSE FALSE

calculateWinAmount(entry, mode) ==
  entry.amount *
    (IF mode = "FR" THEN
       (IF entry.playType = "DIRECT" THEN frDirectRate
        ELSE IF entry.playType = "HOUSE" THEN frHouseRate
        ELSE IF entry.playType = "ENDING" THEN frEndingRate ELSE 0)
     ELSE IF mode = "SR" THEN
       (IF entry.playType = "DIRECT" THEN srDirectRate
        ELSE IF entry.playType = "HOUSE" THEN srHouseRate
        ELSE IF entry.playType = "ENDING" THEN srEndingRate ELSE 0)
     ELSE 0)

(***************************************************************************)
(* calculateWinners, lines 506-578: one entry against the round `r` the    *)
(* handler holds.  A result is taken as present when it is not undefined;  *)
(* result.toString() throws on null.                                       *)
(***************************************************************************)
EntryThrows(e, r) ==
  \/ e.mode = "FR" /\ r.frResult = Null
  \/ e.mode = "SR" /\ r.srResult = Null
  \/ /\ e.mode = "FORECAST"
     /\ r.frResult # Undefined /\ r.srResult # Undefined
     /\ (r.frResult = Null \/ r.srResult = Null)

EntryProcessed(e, r) ==
  \/ e.mode = "FR" /\ r.frResult # Undefined
  \/ e.mode = "SR" /\ r.srResult # Undefined
  \/ e.mode = "FORECAST" /\ r.frResult # Undefined /\ r.srResult # Undefined

ForecastWinner(e, r) ==
  IF e.playType = "DIRECT"
    THEN e.frNumber = r.frResult /\ e.srNumber = r.srResult
  ELSE IF e.playType = "HOUSE"
    THEN e.frNumber = Pad2(r.frResult)[1] /\ e.srNumber = Pad2(r.srResult)[1]
  ELSE IF e.playType = "ENDING"
    THEN e.frNumber = Pad2(r.frResult)[2] /\ e.srNumber = Pad2(r.srResult)[2]
  ELSE FALSE

ForecastWinAmount(e) ==
  e.amount * (IF e.playType = "DIRECT" THEN forecastDirectRate
              ELSE IF e.playType = "HOUSE" THEN forecastHouseRate
              ELSE forecastEndingRate)

EntryIsWinner(e, r) ==
  /\ EntryProcessed(e, r)
  /\ IF e.mode = "FR" THEN checkWinner(e, r.frResult)
     ELSE IF e.mode = "SR" THEN checkWinner(e, r.srResult)
     ELSE ForecastWinner(e, r)

EntryWinAmount(e, r) ==
  IF ~EntryIsWinner(e, r) THEN 0
  ELSE IF e.mode = "FORECAST" THEN ForecastWinAmount(e)
  ELSE calculateWinAmount(e, e.mode)

\* The entries of a bet after the loop of lines 506-578 (lines 571-572 write
\* isWinner and winAmount on every entry, processed or not).
EvalEntries(es, r) ==
  [i \in 1..Len(es) |->
     [es[i] EXCEPT !.isWinner = EntryIsWinner(es[i], r),
                   !.winAmount = EntryWinAmount(es[i], r)]]

BetThrows(b, r) == \E i \in 1..Len(b.entries) : EntryThrows(b.entries[i], r)

\* canFinalizeBet never cleared
canFinalizeBet_Always(b, r) == TRUE

canFinalizeBet(b, r) == \A i \in 1..Len(b.entries) : EntryProcessed(b.entries[i], r)

hasWinner(b, r) == \E i \in 1..Len(b.entries) : EntryIsWinner(b.entries[i], r)

totalWinAmount(b, r) == SumWins(EvalEntries(b.entries, r))


(***************************************************************************)
(* The requests the model submits.                                         *)
(***************************************************************************)
Entry(mode, playType, number, frNumber, srNumber, amount) ==
  [mode |-> mode, playType |-> playType, number |-> number,
   frNumber |-> frNumber, srNumber |-> srNumber, amount |-> amount]

\* entries[] bodies of POST /place
Requests ==
  { <<Entry("FR", "DIRECT", 34, Undefined, Undefined, 10)>>,
    <<Entry("FR", "DIRECT", 34, Undefined, Undefined, 10),
      Entry("SR", "ENDING", 53, Undefined, Undefined, 10)>>,
    <<Entry("FORECAST", "DIRECT", 34, 34, 53, 10)>>,
    <<Entry("FORECAST", "DIRECT", Undefined, 34, 53, 10)>>,
    <<Entry("FR", "JODI", 34, Undefined, Undefined, 10)>> }

\* bodies of POST /place that the route answers 400 or 404: no entry, a number
\* or an amount out of range, no such house, no such round
PlaceBody(houseId, roundId, es) == [houseId |-> houseId, roundId |-> roundId, entries |-> es]

RejectedBodies ==
  { PlaceBody("h1", "r1", <<>>),
    PlaceBody("h1", "r1", <<Entry("FR", "DIRECT", 100, Undefined, Undefined, 10)>>),
    PlaceBody("h1", "r1", <<Entry("FR", "DIRECT", 34, Undefined, Undefined, MinBetAmount - 1)>>),
    PlaceBody("h1", "r1", <<Entry("FR", "DIRECT", 34, Undefined, Undefined, MaxBetAmount + 1)>>),
    PlaceBody("h0", "r1", <<Entry("FR", "DIRECT", 34, Undefined, Undefined, 10)>>),
    PlaceBody("h1", "r0", <<Entry("FR", "DIRECT", 34, Undefined, Undefined, 10)>>) }

\* bodies of POST /place: every request on the round and its house, one on
\* the round and the other house, and the rejected ones
PlaceBodies ==
  { PlaceBody("h1", "r1", es) : es \in Requests }
    \cup { PlaceBody("h2", "r1", <<Entry("FR", "DIRECT", 34, Undefined, Undefined, 10)>>) }
    \cup RejectedBodies

\* bodies of PUT /:id/result (a field that is absent is undefined)
Bodies ==
  { [frResult |-> 34, srResult |-> Undefined],
    [frResult |-> 12, srResult |-> Undefined],
    [frResult |-> Undefined, srResult |-> 53],
    [frResult |-> 34, srResult |-> 53],
    [frResult |-> Null, srResult |-> Undefined],
    [frResult |-> 100, srResult |-> Undefined] }

\* the requests and bodies submitted while other requests are in flight
ConcRequests ==
  { <<Entry("FR", "DIRECT", 34, Undefined, Undefined, 10)>> }

ConcBodies ==
  { [frResult |-> 34, srResult |-> Undefined],
    [frResult |-> Undefined, srResult |-> 53],
    [frResult |-> Null, srResult |-> Undefined] }

NoBody == [frResult |-> Undefined, srResult |-> Undefined]

RoundFields == {"frResult", "srResult", "status", "frStatus", "srStatus", "forecastStatus"}

\* A round as POST /rounds and the scheduler create it before its deadline.
NewRound ==
  [frResult |-> Undefined, srResult |-> Undefined, status |-> "pending",
   frStatus |-> "pending", srStatus |-> "pending", forecastStatus |-> "pending"]

IdleBettor ==
  [house |-> "", entries |-> <<>>, total |-> 0, balanceBefore |-> 0, balance |-> 0,
   bet |-> 0]

IdleAdmin ==
  [body |-> NoBody, round |-> NewRound, dirty |-> {}, bets |-> <<>>, idx |-> 1,
   balanceBefore |-> 0, repeats |-> FALSE, before |-> <<>>, settled |-> {},
   auto |-> ""]

\* (`seen` is history: the number of created Rounds when the last
\* POST /rounds/auto-create returned)
IdleJob ==
  [round |-> NewRound, now |-> 0, house |-> "", date |-> 0, out |-> "",
   seen |-> Undefined]

NoCall == [valid |-> FALSE, body |-> NoBody]

\* no win rule is called on its own
NoProbe == [fn |-> "", playType |-> "", a |-> Undefined, b |-> Undefined,
            frResult |-> Undefined, srResult |-> Undefined, done |-> FALSE,
            out |-> FALSE]

InitWith(w, pr) ==
  /\ now = 0
  /\ round = NewRound
  /\ balance = InitBalance
  /\ bets = <<>>
  /\ txns = <<>>
  /\ bpc = [p \in Bettors |-> "idle"]
  /\ bloc = [p \in Bettors |-> IdleBettor]
  /\ apc = [a \in Admins |-> "idle"]
  /\ aloc = [a \in Admins |-> IdleAdmin]
  /\ nPlace = 0
  /\ nResult = 0
  /\ credits = <<>>
  /\ credited = 0
  /\ lastCall = NoCall
  /\ created = <<>>
  /\ weekday = w
  /\ xpc = [j \in Jobs |-> "idle"]
  /\ xloc = [j \in Jobs |-> IdleJob]
  /\ nCreate = 0
  /\ probe = pr

InitOn(w) == InitWith(w, NoProbe)

\* today is a Friday
Init == InitOn(Friday)

\* today is a Friday or a Saturday
InitRounds == \E w \in {Friday, Saturday} : InitOn(w)

\* No request is between two of its awaits.
Quiet ==
  /\ \A p \in Bettors : bpc[p] = "idle"
  /\ \A a \in Admins : apc[a] = "idle"
  /\ \A j \in Jobs : xpc[j] = "idle"

\* new Date() advances.
Tick ==
  /\ now < MaxTime
  /\ now' = now + 1
  /\ UNCHANGED <<round, balance, bets, txns, bpc, bloc, apc, aloc,
                 nPlace, nResult, credits, credited, lastCall>>
  /\ UNCHANGED roundsVars

(***************************************************************************)
(* updateRoundStatus (the read path of GET /api/rounds/...): the statuses  *)
(* the evaluator derives from the results and the deadline.                *)
(***************************************************************************)
EvaluatedRound(r, t) ==
  LET passed == t >= Deadline
      sub(res) == IF res # Undefined /\ res # Null THEN "finished"
                  ELSE IF passed THEN "live" ELSE "pending"
      both == r.frResult # Undefined /\ r.frResult # Null
              /\ r.srResult # Undefined /\ r.srResult # Null
      all == IF both THEN "finished" ELSE IF passed THEN "live" ELSE "pending"
  IN [r EXCEPT !.frStatus = sub(r.frResult), !.srStatus = sub(r.srResult),
               !.forecastStatus = all, !.status = all]

updateRoundStatus ==
  /\ EvaluatedRound(round, now) # round
  /\ round' = EvaluatedRound(round, now)
  /\ lastCall' = NoCall
  /\ UNCHANGED <<now, balance, bets, txns, bpc, bloc, apc, aloc,
                 nPlace, nResult, credits, credited>>
  /\ UNCHANGED roundsVars


(***************************************************************************)
(* updateRoundStatuses (the scheduler's tick, every minute): for a Round    *)
(* with a sub-game that is not finished, pending becomes live once the     *)
(* deadline has passed, and the overall status is derived; the Round is    *)
(* saved when a sub-game status changed.  The Rounds of later dates have   *)
(* their deadline after the last instant of the clock: the tick leaves     *)
(* them alone.                                                             *)
(***************************************************************************)
\* lines 285-291: the filter of Round.find
SchedSelected(r) ==
  r.frStatus # "finished" \/ r.srStatus # "finished" \/ r.forecastStatus # "finished"

\* lines 302-344: the copy after the assignments, `t` being the tick's now
ScheduledRound(r, t) ==
  LET passed == t >= Deadline
      fr == IF r.frStatus = "pending" /\ passed THEN "live" ELSE r.frStatus
      sr == IF r.srStatus = "pending" /\ passed THEN "live" ELSE r.srStatus
      fc == IF r.forecastStatus = "pending" /\ passed THEN "live" ELSE r.forecastStatus
      st == IF r.frResult # Undefined /\ r.srResult # Undefined THEN "finished"
            ELSE IF fr = "live" \/ sr = "live" \/ fc = "live" THEN "live"
            ELSE "pending"
  IN [r EXCEPT !.frStatus = fr, !.srStatus = sr, !.forecastStatus = fc, !.status = st]

\* lines 299-346: `updated`
SchedUpdated(r, t) ==
  \/ ScheduledRound(r, t).frStatus # r.frStatus
  \/ ScheduledRound(r, t).srStatus # r.srStatus
  \/ ScheduledRound(r, t).forecastStatus # r.forecastStatus

\* save(): the stored round with the paths written on which `new` differs
\* from the loaded document `old`
SavedRound(stored, old, new) ==
  [f \in RoundFields |-> IF new[f] # old[f] THEN new[f] ELSE stored[f]]

\* a tick that nothing interleaves with
updateRoundStatuses ==
  /\ SchedSelected(round) /\ SchedUpdated(round, now)
  /\ round' = SavedRound(round, round, ScheduledRound(round, now))
  /\ lastCall' = NoCall
  /\ UNCHANGED <<now, balance, bets, txns, bpc, bloc, apc, aloc,
                 nPlace, nResult, credits, credited>>
  /\ UNCHANGED roundsVars

\* lines 281-291: now, then Round.find
SchedLoad ==
  /\ xpc["tick"] = "idle"
  /\ SchedSelected(round)
  /\ xloc' = [xloc EXCEPT !["tick"] = [IdleJob EXCEPT !.round = round, !.now = now]]
  /\ xpc' = [xpc EXCEPT !["tick"] = "save"]
  /\ UNCHANGED <<now, round, balance, bets, txns, bpc, bloc, apc, aloc,
                 nPlace, nResult, credits, credited, lastCall>>
  /\ UNCHANGED <<created, weekday, probe, nCreate>>

\* lines 297-350: the assignments on the copy, round.save() if `updated`
SchedSave ==
  /\ xpc["tick"] = "save"
  /\ round' = IF SchedUpdated(xloc["tick"].round, xloc["tick"].now)
                THEN SavedRound(round, xloc["tick"].round,
                                ScheduledRound(xloc["tick"].round, xloc["tick"].now))
                ELSE round
  /\ xloc' = [xloc EXCEPT !["tick"] = IdleJob]
  /\ xpc' = [xpc EXCEPT !["tick"] = "idle"]
  /\ lastCall' = NoCall
  /\ UNCHANGED <<now, balance, bets, txns, bpc, bloc, apc, aloc,
                 nPlace, nResult, credits, credited>>
  /\ UNCHANGED <<created, weekday, probe, nCreate>>

\* the read path: a GET route loads the round (Round.findOne / findById)
EvalLoad ==
  /\ xpc["read"] = "idle"
  /\ xloc' = [xloc EXCEPT !["read"] = [IdleJob EXCEPT !.round = round]]
  /\ xpc' = [xpc EXCEPT !["read"] = "save"]
  /\ UNCHANGED <<now, round, balance, bets, txns, bpc, bloc, apc, aloc,
                 nPlace, nResult, credits, credited, lastCall>>
  /\ UNCHANGED <<created, weekday, probe, nCreate>>

\* updateRoundStatus, lines 14-96: the assignments on the copy, round.save()
\* if statusChanged
EvalSave ==
  /\ xpc["read"] = "save"
  /\ round' = SavedRound(round, xloc["read"].round,
                         EvaluatedRound(xloc["read"].round, now))
  /\ xloc' = [xloc EXCEPT !["read"] = IdleJob]
  /\ xpc' = [xpc EXCEPT !["read"] = "idle"]
  /\ lastCall' = NoCall
  /\ UNCHANGED <<now, balance, bets, txns, bpc, bloc, apc, aloc,
                 nPlace, nResult, credits, credited>>
  /\ UNCHANGED <<created, weekday, probe, nCreate>>


(***************************************************************************)
(* POST /api/bets/place.  The awaits are House.findById (34),              *)
(* Round.findById (43), User.findById (173), user.save (184),              *)
(* Bet.create (187) and Transaction.create (197); the catch of line 218    *)
(* answers 500 and restores nothing.                                       *)
(***************************************************************************)
\* lines 33-49: House.findById and Round.findById find a document (the round
\* is not compared with the house)
HouseFound(houseId) == houseId \in Houses /\ HouseDoc(houseId).isActive

RoundFound(roundId) == roundId = RoundId

\* lines 15-167: the input checks, the house and the round as read, the checks
\* on every entry
PlaceBegin(p, houseId, roundId, es) ==
  /\ bpc[p] = "idle"
  /\ nPlace < MaxPlaceCalls
  /\ nPlace' = nPlace + 1
  /\ IF \/ Len(es) = 0 \/ Len(es) > MaxEntriesPerBet
        \/ ~HouseFound(houseId) \/ ~RoundFound(roundId)
        \/ FirstError(es, round, now) # "ok"
       THEN /\ bloc' = [bloc EXCEPT ![p] = IdleBettor]
            /\ bpc' = bpc
       ELSE /\ bloc' = [bloc EXCEPT ![p] =
                 [IdleBettor EXCEPT !.house = houseId, !.entries = es,
                                    !.total = SumAmounts(es)]]
            /\ bpc' = [bpc EXCEPT ![p] = "findUser"]
  /\ UNCHANGED <<now, round, balance, bets, txns, apc, aloc,
                 nResult, credits, credited, lastCall>>
  /\ UNCHANGED roundsVars

\* lines 172-183: the balance as read, the check, the subtraction on the copy
PlaceFindUser(p) ==
  /\ bpc[p] = "findUser"
  /\ IF balance < bloc[p].total
       THEN /\ bloc' = [bloc EXCEPT ![p] = IdleBettor]
            /\ bpc' = [bpc EXCEPT ![p] = "idle"]
       ELSE /\ bloc' = [bloc EXCEPT ![p].balanceBefore = balance,
                                    ![p].balance = balance - bloc[p].total]
            /\ bpc' = [bpc EXCEPT ![p] = "saveUser"]
  /\ UNCHANGED <<now, round, balance, bets, txns, apc, aloc,
                 nPlace, nResult, credits, credited, lastCall>>
  /\ UNCHANGED roundsVars

\* a save that subtracts the stake from the stored balance ($inc)
SavedBalance_Inc(stored, loaded, total) == stored - total

\* lines 182-184: `user.balance -= totalAmount` on the copy, and user.save()
\* sets the stored balance to the balance of the copy
SavedBalance(stored, loaded, total) == loaded - total

\* line 184: user.save() writes the balance of the copy
PlaceSaveUser(p) ==
  /\ bpc[p] = "saveUser"
  /\ balance' = SavedBalance(balance, bloc[p].balanceBefore, bloc[p].total)
  /\ bpc' = [bpc EXCEPT ![p] = "createBet"]
  /\ lastCall' = NoCall
  /\ UNCHANGED <<now, round, bets, txns, bloc, apc, aloc,
                 nPlace, nResult, credits, credited>>
  /\ UNCHANGED roundsVars

\* the document Bet.create stores (`request` is history: the entries as sent)
NewBet(houseId, es, total) ==
  [house |-> houseId, round |-> RoundId,
   entries |-> [i \in 1..Len(es) |-> EntryCast(es[i])],
   totalAmount |-> total, status |-> "pending", totalWinAmount |-> 0,
   request |-> es]

\* lines 187-194: Bet.create validates against the schema and throws, or stores
PlaceCreateBet(p) ==
  /\ bpc[p] = "createBet"
  /\ IF \A i \in 1..Len(bloc[p].entries) : EntrySchemaValid(bloc[p].entries[i])
       THEN /\ bets' = Append(bets, NewBet(bloc[p].house, bloc[p].entries, bloc[p].total))
            /\ credits' = Append(credits, 0)
            /\ bloc' = [bloc EXCEPT ![p].bet = Len(bets) + 1]
            /\ bpc' = [bpc EXCEPT ![p] = "createTxn"]
       ELSE /\ bloc' = [bloc EXCEPT ![p] = IdleBettor]
            /\ bpc' = [bpc EXCEPT ![p] = "idle"]
            /\ UNCHANGED <<bets, credits>>
  /\ lastCall' = NoCall
  /\ UNCHANGED <<now, round, balance, txns, apc, aloc,
                 nPlace, nResult, credited>>
  /\ UNCHANGED roundsVars

\* a stake Transaction whose balanceAfter is the balance stored at that moment
BetTransaction_Stored(betId, total, balanceBefore, copyBalance) ==
  [type |-> "bet", amount |-> 0 - total, balanceBefore |-> balanceBefore,
   balanceAfter |-> balance, relatedBet |-> betId]

\* lines 197-206: the document Transaction.create stores; balanceAfter is
\* user.balance of the copy
BetTransaction(betId, total, balanceBefore, copyBalance) ==
  [type |-> "bet", amount |-> 0 - total, balanceBefore |-> balanceBefore,
   balanceAfter |-> copyBalance, relatedBet |-> betId]

\* lines 197-217: the stake Transaction, then the 201 answer
PlaceCreateTxn(p) ==
  /\ bpc[p] = "createTxn"
  /\ txns' = Append(txns, BetTransaction(bloc[p].bet, bloc[p].total,
                                          bloc[p].balanceBefore, bloc[p].balance))
  /\ bloc' = [bloc EXCEPT ![p] = IdleBettor]
  /\ bpc' = [bpc EXCEPT ![p] = "idle"]
  /\ lastCall' = NoCall
  /\ UNCHANGED <<now, round, balance, bets, apc, aloc,
                 nPlace, nResult, credits, credited>>
  /\ UNCHANGED roundsVars


(***************************************************************************)
(* PUT /api/rounds/:id/result.  The awaits are Round.findById (417),       *)
(* round.save (461) and calculateWinners (464), whose own awaits are       *)
(* Bet.find (495), bet.save (584), User.findById (588), user.save (592)    *)
(* and Transaction.create (595); its catch (610) ends the pass.            *)
(***************************************************************************)
\* `x < 0 || x > 99` on a field of the body
OutOfRange(x) == JsLT(x, 0) \/ JsGT(x, 99)

\* lines 426-459: the body applied to the copy `r` of the round
ApplyBody(r, body) ==
  LET r1 == IF body.frResult # Undefined
              THEN [r EXCEPT !.frResult = body.frResult, !.frStatus = "finished"]
              ELSE r
      r2 == IF body.srResult # Undefined
              THEN [r1 EXCEPT !.srResult = body.srResult, !.srStatus = "finished"]
              ELSE r1
  IN IF r2.frResult # Undefined /\ r2.srResult # Undefined
       THEN [r2 EXCEPT !.forecastStatus = "finished", !.status = "finished"]
       ELSE r2

\* lines 417-459: the round as read, the range checks (400), the assignments
RecordLoad(a, body) ==
  /\ apc[a] = "idle"
  /\ nResult < MaxResultCalls
  /\ nResult' = nResult + 1
  /\ IF \/ body.frResult # Undefined /\ OutOfRange(body.frResult)
        \/ body.srResult # Undefined /\ OutOfRange(body.srResult)
       THEN /\ aloc' = [aloc EXCEPT ![a] = IdleAdmin]
            /\ apc' = apc
       ELSE /\ aloc' = [aloc EXCEPT ![a] =
                 [IdleAdmin EXCEPT
                    !.body = body,
                    !.round = ApplyBody(round, body),
                    !.dirty = {f \in RoundFields : ApplyBody(round, body)[f] # round[f]},
                    \* history: this call repeats the previous one; the store it found
                    !.repeats = lastCall.valid /\ lastCall.body = body,
                    !.before = IF lastCall.valid /\ lastCall.body = body
                                 THEN store ELSE <<>>]]
            /\ apc' = [apc EXCEPT ![a] = "saveRound"]
  /\ UNCHANGED <<now, round, balance, bets, txns, bpc, bloc,
                 nPlace, credits, credited, lastCall>>
  /\ UNCHANGED roundsVars

\* line 461: round.save() writes the paths the handler changed
RecordSave(a) ==
  /\ apc[a] = "saveRound"
  /\ round' = [f \in RoundFields |->
                 IF f \in aloc[a].dirty THEN aloc[a].round[f] ELSE round[f]]
  /\ apc' = [apc EXCEPT ![a] = "findBets"]
  /\ UNCHANGED <<now, balance, bets, txns, bpc, bloc, aloc,
                 nPlace, nResult, credits, credited, lastCall>>
  /\ UNCHANGED roundsVars

\* Bet.find with the status filter dropped
FindPending_AllBets(bs) == 1..Len(bs)

\* Bet.find with a filter that only leaves out the lost bets
FindPending_NotLost(bs) == {i \in 1..Len(bs) : bs[i].status # "lost"}

\* lines 495-498: the ids of the bets Bet.find returns
FindPending(bs) == {i \in 1..Len(bs) : bs[i].status = "pending"}

RECURSIVE LoadBets(_, _)
LoadBets(ids, bs) ==
  IF ids = {} THEN <<>>
  ELSE LET i == CHOOSE x \in ids : \A y \in ids : x <= y
       IN <<[id |-> i, doc |-> bs[i]]>> \o LoadBets(ids \ {i}, bs)

CalcFind(a) ==
  /\ apc[a] = "findBets"
  /\ aloc' = [aloc EXCEPT ![a].bets = LoadBets(FindPending(bets), bets), ![a].idx = 1,
                           \* history: the bets that were won or lost before this pass
                           ![a].settled = {i \in 1..Len(bets) : bets[i].status \in {"won", "lost"}}]
  /\ apc' = [apc EXCEPT ![a] = "loop"]
  /\ UNCHANGED <<now, round, balance, bets, txns, bpc, bloc,
                 nPlace, nResult, credits, credited, lastCall>>
  /\ UNCHANGED roundsVars

CurBet(a) == aloc[a].bets[aloc[a].idx]

\* lines 506-578 throw (toString of null): the catch of line 610 ends the pass
CalcThrow(a) ==
  /\ apc[a] = "loop" /\ aloc[a].idx <= Len(aloc[a].bets)
  /\ BetThrows(CurBet(a).doc, aloc[a].round)
  /\ apc' = [apc EXCEPT ![a] = "after"]
  /\ UNCHANGED <<now, round, balance, bets, txns, bpc, bloc, aloc,
                 nPlace, nResult, credits, credited, lastCall>>
  /\ UNCHANGED roundsVars

\* lines 581, 608: an entry could not be processed; the bet stays pending
CalcSkip(a) ==
  /\ apc[a] = "loop" /\ aloc[a].idx <= Len(aloc[a].bets)
  /\ ~BetThrows(CurBet(a).doc, aloc[a].round)
  /\ ~canFinalizeBet(CurBet(a).doc, aloc[a].round)
  /\ aloc' = [aloc EXCEPT ![a].idx = @ + 1]
  /\ UNCHANGED <<now, round, balance, bets, txns, bpc, bloc, apc,
                 nPlace, nResult, credits, credited, lastCall>>
  /\ UNCHANGED roundsVars

\* bet.save(): the stored bet with the paths written that differ from the
\* loaded document `old`
SavedBet(stored, old, r) ==
  LET es == EvalEntries(old.entries, r)
      total == totalWinAmount(old, r)
  IN [stored EXCEPT
        !.status = IF hasWinner(old, r) THEN "won" ELSE "lost",
        !.totalWinAmount = IF total # old.totalWinAmount THEN total ELSE @,
        !.entries = [i \in 1..Len(es) |->
           [@[i] EXCEPT
              !.isWinner = IF es[i].isWinner # old.entries[i].isWinner
                             THEN es[i].isWinner ELSE @,
              !.winAmount = IF es[i].winAmount # old.entries[i].winAmount
                              THEN es[i].winAmount ELSE @]]]

\* lines 581-587: every entry was processed; the bet is saved won or lost
CalcSaveBet(a) ==
  /\ apc[a] = "loop" /\ aloc[a].idx <= Len(aloc[a].bets)
  /\ ~BetThrows(CurBet(a).doc, aloc[a].round)
  /\ canFinalizeBet(CurBet(a).doc, aloc[a].round)
  /\ bets' = [bets EXCEPT ![CurBet(a).id] =
                SavedBet(bets[CurBet(a).id], CurBet(a).doc, aloc[a].round)]
  /\ IF /\ hasWinner(CurBet(a).doc, aloc[a].round)
        /\ totalWinAmount(CurBet(a).doc, aloc[a].round) > 0
       THEN /\ apc' = [apc EXCEPT ![a] = "findUser"]
            /\ aloc' = aloc
       ELSE /\ apc' = apc
            /\ aloc' = [aloc EXCEPT ![a].idx = @ + 1]
  /\ UNCHANGED <<now, round, balance, txns, bpc, bloc,
                 nPlace, nResult, credits, credited, lastCall>>
  /\ UNCHANGED roundsVars

\* lines 588-591: the balance as read
CalcFindUser(a) ==
  /\ apc[a] = "findUser"
  /\ aloc' = [aloc EXCEPT ![a].balanceBefore = balance]
  /\ apc' = [apc EXCEPT ![a] = "saveUser"]
  /\ UNCHANGED <<now, round, balance, bets, txns, bpc, bloc,
                 nPlace, nResult, credits, credited, lastCall>>
  /\ UNCHANGED roundsVars

\* line 592: user.save() writes the balance of the copy
CalcSaveUser(a) ==
  /\ apc[a] = "saveUser"
  /\ balance' = aloc[a].balanceBefore + totalWinAmount(CurBet(a).doc, aloc[a].round)
  /\ credits' = [credits EXCEPT ![CurBet(a).id] = @ + 1]
  /\ credited' = credited + totalWinAmount(CurBet(a).doc, aloc[a].round)
  /\ apc' = [apc EXCEPT ![a] = "createTxn"]
  /\ UNCHANGED <<now, round, bets, txns, bpc, bloc, aloc,
                 nPlace, nResult, lastCall>>
  /\ UNCHANGED roundsVars

\* lines 587-604: balanceBefore is user.balance as read, balanceAfter
\* user.balance of the copy after `user.balance += totalWinAmount`
WinTransaction(betId, win, balanceBefore) ==
  [type |-> "win", amount |-> win, balanceBefore |-> balanceBefore,
   balanceAfter |-> balanceBefore + win, relatedBet |-> betId]

\* lines 595-604: the win Transaction
CalcCreateTxn(a) ==
  /\ apc[a] = "createTxn"
  /\ txns' = Append(txns,
       WinTransaction(CurBet(a).id, totalWinAmount(CurBet(a).doc, aloc[a].round),
                      aloc[a].balanceBefore))
  /\ aloc' = [aloc EXCEPT ![a].idx = @ + 1]
  /\ apc' = [apc EXCEPT ![a] = "loop"]
  /\ UNCHANGED <<now, round, balance, bets, bpc, bloc,
                 nPlace, nResult, credits, credited, lastCall>>
  /\ UNCHANGED roundsVars

\* line 592: user.save() rejects (the store fails); the catch of line 610 ends
\* the pass
CalcSaveUserFails(a) ==
  /\ apc[a] = "saveUser"
  /\ apc' = [apc EXCEPT ![a] = "after"]
  /\ UNCHANGED <<now, round, balance, bets, txns, bpc, bloc, aloc,
                 nPlace, nResult, credits, credited, lastCall>>
  /\ UNCHANGED roundsVars

\* line 595: Transaction.create rejects; the catch of line 610 ends the pass
CalcCreateTxnFails(a) ==
  /\ apc[a] = "createTxn"
  /\ apc' = [apc EXCEPT ![a] = "after"]
  /\ UNCHANGED <<now, round, balance, bets, txns, bpc, bloc, aloc,
                 nPlace, nResult, credits, credited, lastCall>>
  /\ UNCHANGED roundsVars

\* the loop of line 500 is over
CalcDone(a) ==
  /\ apc[a] = "loop" /\ aloc[a].idx > Len(aloc[a].bets)
  /\ apc' = [apc EXCEPT ![a] = "after"]
  /\ UNCHANGED <<now, round, balance, bets, txns, bpc, bloc, aloc,
                 nPlace, nResult, credits, credited, lastCall>>
  /\ UNCHANGED roundsVars

(***************************************************************************)
(* Round creation.  autoCreateRoundForHouse (roundScheduler.js 363-419) is *)
(* called by PUT /:id/result once both results are set; autoCreateRounds   *)
(* (422-475) by POST /rounds/auto-create; POST /rounds (rounds.js 300-410) *)
(* by an admin.  Each looks for a Round of the house and date with         *)
(* Round.findOne and, finding none, calls Round.create.  The date filter   *)
(* is taken as the calendar day.                                           *)
(***************************************************************************)
\* tomorrow.getDay()
tomorrowDayOfWeek(w) == (w + 1) % 7

\* combineDateAndTime: the deadline instant of a round of date d.  The clock
\* of the model runs within today, whose deadline is Deadline; a day has
\* MaxTime + 1 instants.
combineDateAndTime(d) == d * (MaxTime + 1) + Deadline

\* Round.findOne({house, date}) with every answer "none"
ExistingRound_None(cs, h, d) == FALSE

\* Round.findOne({house, date}) finds a document
ExistingRound(cs, h, d) ==
  \/ h = RoundHouse /\ d = Today
  \/ \E i \in 1..Len(cs) : cs[i].house = h /\ cs[i].date = d

\* roundSchema: deadline and deadlineTime are required
RoundSchemaValid(doc) == doc.deadline # Undefined /\ doc.deadlineTime # Undefined

\* the document autoCreateRoundForHouse and autoCreateRounds pass to
\* Round.create: no deadlineTime
AutoRound(h) ==
  [house |-> h, date |-> getTomorrowDate,
   deadline |-> combineDateAndTime(getTomorrowDate), deadlineTime |-> Undefined,
   status |-> "pending", frStatus |-> "pending", srStatus |-> "pending",
   forecastStatus |-> "pending"]

\* lines 365-399 and 434-450: what the call does for house h, up to Round.findOne
AutoCreateOutcome(h, w, cs) ==
  IF h \notin Houses THEN "nohouse"
  ELSE IF ~HouseDoc(h).isActive \/ ~HouseDoc(h).autoCreateRounds THEN "disabled"
  ELSE IF tomorrowDayOfWeek(w) \notin HouseDoc(h).operatingDays THEN "closed"
  ELSE IF ExistingRound(cs, h, getTomorrowDate) THEN "exists"
  ELSE "create"

\* rounds.js 467: both results are set on the handler's round
BothSet(r) == r.frResult # Undefined /\ r.srResult # Undefined

\* rounds.js 467-470, roundScheduler.js 365-399
AutoCreateFind(a) ==
  /\ apc[a] = "after" /\ BothSet(aloc[a].round)
  /\ aloc' = [aloc EXCEPT ![a].auto = AutoCreateOutcome(RoundHouse, weekday, created)]
  /\ apc' = [apc EXCEPT ![a] =
       IF AutoCreateOutcome(RoundHouse, weekday, created) = "create"
         THEN "acCreate" ELSE "respond"]
  /\ UNCHANGED <<now, round, balance, bets, txns, bpc, bloc,
                 nPlace, nResult, credits, credited, lastCall>>
  /\ UNCHANGED roundsVars

\* roundScheduler.js 402-418: Round.create validates and throws (the catch of
\* line 416 logs the error), or stores
AutoCreateCreate(a) ==
  /\ apc[a] = "acCreate"
  /\ IF RoundSchemaValid(AutoRound(RoundHouse))
       THEN /\ created' = Append(created, AutoRound(RoundHouse))
            /\ aloc' = [aloc EXCEPT ![a].auto = "created"]
       ELSE /\ created' = created
            /\ aloc' = [aloc EXCEPT ![a].auto = "error"]
  /\ apc' = [apc EXCEPT ![a] = "respond"]
  /\ UNCHANGED <<now, round, balance, bets, txns, bpc, bloc,
                 nPlace, nResult, credits, credited, lastCall>>
  /\ UNCHANGED <<weekday, probe, xpc, xloc, nCreate>>

\* lines 466-482: the 200 answer
RecordRespond(a) ==
  /\ apc[a] = "respond" \/ (apc[a] = "after" /\ ~BothSet(aloc[a].round))
  /\ lastCall' = [valid |-> TRUE, body |-> aloc[a].body]
  /\ aloc' = [aloc EXCEPT ![a] = IdleAdmin]
  /\ apc' = [apc EXCEPT ![a] = "idle"]
  /\ UNCHANGED <<now, round, balance, bets, txns, bpc, bloc,
                 nPlace, nResult, credits, credited>>
  /\ UNCHANGED roundsVars

\* POST /rounds/auto-create, roundScheduler.js 424-450: the houses that are
\* active with auto-creation on (only "h1"), the weekday test, Round.findOne
AutoAllFind ==
  /\ xpc["auto"] = "idle"
  /\ HouseDoc(RoundHouse).isActive /\ HouseDoc(RoundHouse).autoCreateRounds
  /\ xloc' = [xloc EXCEPT !["auto"] =
       [IdleJob EXCEPT !.house = RoundHouse,
                       !.out = AutoCreateOutcome(RoundHouse, weekday, created),
                       !.seen = IF AutoCreateOutcome(RoundHouse, weekday, created) = "create"
                                  THEN xloc["auto"].seen ELSE Len(created)]]
  /\ xpc' = [xpc EXCEPT !["auto"] =
       IF AutoCreateOutcome(RoundHouse, weekday, created) = "create"
         THEN "create" ELSE "idle"]
  /\ UNCHANGED <<now, round, balance, bets, txns, bpc, bloc, apc, aloc,
                 nPlace, nResult, credits, credited, lastCall>>
  /\ UNCHANGED <<created, weekday, probe, nCreate>>

\* roundScheduler.js 452-474: Round.create validates and throws (the catch of
\* line 472 logs the error), or stores
AutoAllCreate ==
  /\ xpc["auto"] = "create"
  /\ IF RoundSchemaValid(AutoRound(xloc["auto"].house))
       THEN /\ created' = Append(created, AutoRound(xloc["auto"].house))
            /\ xloc' = [xloc EXCEPT !["auto"].out = "created",
                                    !["auto"].seen = Len(created) + 1]
       ELSE /\ created' = created
            /\ xloc' = [xloc EXCEPT !["auto"].out = "error",
                                    !["auto"].seen = Len(created)]
  /\ xpc' = [xpc EXCEPT !["auto"] = "idle"]
  /\ UNCHANGED <<now, round, balance, bets, txns, bpc, bloc, apc, aloc,
                 nPlace, nResult, credits, credited, lastCall>>
  /\ UNCHANGED <<weekday, probe, nCreate>>

\* the document POST /rounds passes to Round.create (rounds.js 372-395)
CreatedRound(h, d, t) ==
  LET st == IF t >= combineDateAndTime(d) THEN "live" ELSE "pending"
  IN [house |-> h, date |-> d, deadline |-> combineDateAndTime(d),
      deadlineTime |-> HouseDoc(h).deadlineTime,
      status |-> st, frStatus |-> st, srStatus |-> st, forecastStatus |-> st]

\* POST /rounds, rounds.js 302-370: House.findById (404), Round.findOne (400)
CreateFind(c, h, d) ==
  /\ xpc[c] = "idle"
  /\ nCreate < MaxCreateCalls
  /\ nCreate' = nCreate + 1
  /\ IF h \notin Houses \/ ExistingRound(created, h, d)
       THEN /\ xloc' = [xloc EXCEPT ![c] = [IdleJob EXCEPT !.out = "rejected"]]
            /\ xpc' = xpc
       ELSE /\ xloc' = [xloc EXCEPT ![c] = [IdleJob EXCEPT !.house = h, !.date = d]]
            /\ xpc' = [xpc EXCEPT ![c] = "create"]
  /\ UNCHANGED <<now, round, balance, bets, txns, bpc, bloc, apc, aloc,
                 nPlace, nResult, credits, credited, lastCall>>
  /\ UNCHANGED <<created, weekday, probe>>

\* POST /rounds, rounds.js 372-403: Round.create, the 201 answer
CreateSave(c) ==
  /\ xpc[c] = "create"
  /\ created' = Append(created, CreatedRound(xloc[c].house, xloc[c].date, now))
  /\ xloc' = [xloc EXCEPT ![c].out = "created"]
  /\ xpc' = [xpc EXCEPT ![c] = "idle"]
  /\ UNCHANGED <<now, round, balance, bets, txns, bpc, bloc, apc, aloc,
                 nPlace, nResult, credits, credited, lastCall>>
  /\ UNCHANGED <<weekday, probe, nCreate>>

(***************************************************************************)
(* Spec: the requests are handled one at a time.                           *)
(* SpecConc: two POST /place and two PUT /:id/result requests interleave   *)
(* at their awaits (the clock and the evaluator stand still meanwhile).    *)
(***************************************************************************)
AdminStep ==
  \/ \E a \in Admins : RecordSave(a)
  \/ \E a \in Admins : CalcFind(a)
  \/ \E a \in Admins : CalcDone(a)
  \/ \E a \in Admins : AutoCreateFind(a)
  \/ \E a \in Admins : AutoCreateCreate(a)
  \/ \E a \in Admins : RecordRespond(a)

Step ==
  \/ \E p \in Bettors : PlaceFindUser(p)
  \/ \E p \in Bettors : PlaceSaveUser(p)
  \/ \E p \in Bettors : PlaceCreateBet(p)
  \/ \E p \in Bettors : PlaceCreateTxn(p)
  \/ \E a \in Admins : RecordSave(a)
  \/ \E a \in Admins : CalcFind(a)
  \/ \E a \in Admins : CalcThrow(a)
  \/ \E a \in Admins : CalcSkip(a)
  \/ \E a \in Admins : CalcSaveBet(a)
  \/ \E a \in Admins : CalcFindUser(a)
  \/ \E a \in Admins : CalcSaveUser(a)
  \/ \E a \in Admins : CalcCreateTxn(a)
  \/ \E a \in Admins : CalcDone(a)
  \/ \E a \in Admins : AutoCreateFind(a)
  \/ \E a \in Admins : AutoCreateCreate(a)
  \/ \E a \in Admins : RecordRespond(a)

Next ==
  \/ Tick
  \/ Quiet /\ updateRoundStatus
  \/ Quiet /\ updateRoundStatuses
  \/ \E b \in PlaceBodies : Quiet /\ PlaceBegin("req1", b.houseId, b.roundId, b.entries)
  \/ \E body \in Bodies : Quiet /\ RecordLoad("adm1", body)
  \/ Step

Spec == Init /\ [][Next]_vars

NextConc ==
  \/ \E p \in Bettors, es \in ConcRequests :
       (p = "req1" \/ bpc["req1"] # "idle") /\ PlaceBegin(p, "h1", "r1", es)
  \/ \E a \in Admins, body \in ConcBodies :
       (a = "adm1" \/ apc["adm1"] # "idle") /\ RecordLoad(a, body)
  \/ Step

SpecConc == Init /\ [][NextConc]_vars

\* SpecFail: the requests are handled one at a time, a bet on the second round
\* alone is placed as well, and a store operation of the settlement pass may
\* fail.
NextFail ==
  \/ Next
  \/ Quiet /\ PlaceBegin("req1", "h1", "r1",
                         <<Entry("SR", "ENDING", 53, Undefined, Undefined, 10)>>)
  \/ CalcSaveUserFails("adm1")
  \/ CalcCreateTxnFails("adm1")

SpecFail == Init /\ [][NextFail]_vars

\* the entries[] body two POST /place requests in flight send: the stake is
\* the whole balance
UserRequests ==
  { <<Entry("FR", "DIRECT", 34, Undefined, Undefined, 20)>> }

\* SpecUser: two POST /place requests of the one user and a PUT /:id/result
\* interleave at their awaits.  Every Bet is on FR and the body carries
\* frResult 34: no entry is left unprocessed, nothing throws and srResult stays
\* unset, so the steps of those paths are not listed.
NextUser ==
  \/ \E p \in Bettors, es \in UserRequests :
       (p = "req1" \/ bpc["req1"] # "idle") /\ PlaceBegin(p, "h1", "r1", es)
  \/ RecordLoad("adm1", [frResult |-> 34, srResult |-> Undefined])
  \/ \E p \in Bettors : PlaceFindUser(p)
  \/ \E p \in Bettors : PlaceSaveUser(p)
  \/ \E p \in Bettors : PlaceCreateBet(p)
  \/ \E p \in Bettors : PlaceCreateTxn(p)
  \/ RecordSave("adm1")
  \/ CalcFind("adm1")
  \/ CalcSaveBet("adm1")
  \/ CalcFindUser("adm1")
  \/ CalcSaveUser("adm1")
  \/ CalcCreateTxn("adm1")
  \/ CalcDone("adm1")
  \/ RecordRespond("adm1")

SpecUser == Init /\ [][NextUser]_vars

\* bodies of PUT /:id/result submitted while rounds are created or statuses
\* evaluated
AdminBodies ==
  { [frResult |-> 34, srResult |-> Undefined],
    [frResult |-> Undefined, srResult |-> 53],
    [frResult |-> 34, srResult |-> 53] }

(***************************************************************************)
(* SpecRounds: two POST /rounds requests, a POST /rounds/auto-create and a *)
(* PUT /:id/result interleave at their awaits; no bet is placed.           *)
(* SpecStatus: the scheduler's tick, the read path and a PUT /:id/result   *)
(* interleave at their awaits while the clock advances; no bet is placed.  *)
(***************************************************************************)
NextRounds ==
  \/ \E c \in Creators, d \in {Today, getTomorrowDate} :
       (c = "cr1" \/ xpc["cr1"] # "idle") /\ CreateFind(c, RoundHouse, d)
  \/ \E c \in Creators : CreateSave(c)
  \/ AutoAllFind
  \/ AutoAllCreate
  \/ RecordLoad("adm1", [frResult |-> 34, srResult |-> 53])
  \/ AdminStep

SpecRounds == InitRounds /\ [][NextRounds]_vars

NextStatus ==
  \/ Tick
  \/ SchedLoad
  \/ SchedSave
  \/ EvalLoad
  \/ EvalSave
  \/ \E body \in AdminBodies : RecordLoad("adm1", body)
  \/ AdminStep

SpecStatus == Init /\ [][NextStatus]_vars

(***************************************************************************)
(* SpecRules: the win rules on their own.  checkWinner (rounds.js 616-635) *)
(* is called on every bet number and result; the FORECAST branch of        *)
(* calculateWinners (535-569) on entries that carry a number pair.         *)
(***************************************************************************)
\* the numbers a bet and a result can be (part_011 89, models/Round.js 27-36)
Numbers == 0..99

\* the numbers of the pairs and results the FORECAST branch is called on
ForecastNumbers == {3, 4, 5, 34, 35, 53}

WinnerProbes ==
  { [NoProbe EXCEPT !.fn = "checkWinner", !.playType = pt, !.a = n, !.frResult = r] :
      pt \in PlayTypes, n \in Numbers, r \in Numbers }

ForecastProbes ==
  { [NoProbe EXCEPT !.fn = "forecast", !.playType = pt, !.a = x, !.b = y,
                    !.frResult = fr, !.srResult = sr] :
      pt \in PlayTypes, x \in ForecastNumbers, y \in ForecastNumbers,
      fr \in ForecastNumbers, sr \in ForecastNumbers }

InitRules == \E pr \in WinnerProbes \cup ForecastProbes : InitWith(Friday, pr)

\* checkWinner(entry, result)
ProbeCheckWinner ==
  /\ probe.fn = "checkWinner" /\ ~probe.done
  /\ probe' = [probe EXCEPT
                 !.done = TRUE,
                 !.out = checkWinner([playType |-> probe.playType, number |-> probe.a],
                                     probe.frResult)]
  /\ UNCHANGED <<now, round, balance, bets, txns, bpc, bloc, apc, aloc,
                 nPlace, nResult, credits, credited, lastCall,
                 created, weekday, xpc, xloc, nCreate>>

\* lines 536-565 on an entry with frNumber and srNumber: the value of isWinner
ProbeForecast ==
  /\ probe.fn = "forecast" /\ ~probe.done
  /\ probe' = [probe EXCEPT
                 !.done = TRUE,
                 !.out = ForecastWinner(
                           Entry("FORECAST", probe.playType, Undefined, probe.a, probe.b,
                                 MinBetAmount),
                           [frResult |-> probe.frResult, srResult |-> probe.srResult])]
  /\ UNCHANGED <<now, round, balance, bets, txns, bpc, bloc, apc, aloc,
                 nPlace, nResult, credits, credited, lastCall,
                 created, weekday, xpc, xloc, nCreate>>

NextRules ==
  \/ ProbeCheckWinner
  \/ ProbeForecast

SpecRules == InitRules /\ [][NextRules]_vars


(***************************************************************************)
(* Properties.                                                             *)
(***************************************************************************)
RECURSIVE CountWinTxns(_, _)
CountWinTxns(ts, b) ==
  IF ts = <<>> THEN 0
  ELSE (IF Head(ts).type = "win" /\ Head(ts).relatedBet = b THEN 1 ELSE 0)
       + CountWinTxns(Tail(ts), b)

WinTxns(b) == CountWinTxns(txns, b)

RECURSIVE SumTxns(_)
SumTxns(ts) == IF ts = <<>> THEN 0 ELSE Head(ts).amount + SumTxns(Tail(ts))

RECURSIVE SumStakes(_)
SumStakes(bs) == IF bs = <<>> THEN 0 ELSE Head(bs).totalAmount + SumStakes(Tail(bs))

InPass(a) == apc[a] \in {"loop", "findUser", "saveUser", "createTxn", "after"}

\* C1: no double settlement.  With the requests handled one at a time, no step
\* of a settlement pass changes a Bet that was already won or lost when the
\* pass read its bets (status, totalWinAmount and entries stay as they were),
\* credits the balance for it, or adds a Transaction that refers to it.
C1_NoDoubleSettlement ==
  [][\A a \in Admins : InPass(a) =>
       \A b \in aloc[a].settled :
         /\ bets'[b] = bets[b]
         /\ credits'[b] = credits[b]
         /\ CountWinTxns(txns', b) = CountWinTxns(txns, b)]_vars

\* A later pass, carrying another FR result, has run over a Bet that an earlier
\* pass settled as won and paid.
C1_Witness ==
  \E a \in Admins :
    /\ apc[a] = "after"
    /\ aloc[a].body.frResult = 12
    /\ \E b \in aloc[a].settled :
         bets[b].status = "won" /\ credits[b] = 1 /\ WinTxns(b) = 1

\* C2: no double payment under concurrency.  In every interleaving of two
\* PUT /:id/result requests each Bet is credited at most once and has at most
\* one win Transaction.
C2_NoDoublePayment ==
  \A b \in DOMAIN bets : credits[b] <= 1 /\ WinTxns(b) <= 1

\* C3: no lost update on the balance.  When every request has returned, the
\* balance is the initial balance minus the stakes of the Bets admitted plus
\* the wins that settlement credited.
C3_NoLostUpdate ==
  Quiet => balance = InitBalance - SumStakes(bets) + credited

\* C4: conservation.  In every reachable state the balance is the initial
\* balance plus the sum of the amounts of the Transactions.
C4_Conservation ==
  balance = InitBalance + SumTxns(txns)

\* C5: post-debit rollback.  When Bet.create fails after the debit and POST
\* /place answers the error, the balance is back at its value before the call.
C5_DebitRolledBack ==
  [][\A p \in Bettors :
       bpc[p] = "createBet" /\ bpc'[p] = "idle" => balance' = bloc[p].balanceBefore]_vars

\* C6: deadline gating.  A POST /place made when now >= round.deadline is
\* rejected: it does not get past the checks on its entries.
C6_DeadlineGating ==
  [][nPlace' # nPlace /\ now >= Deadline => \A p \in Bettors : bpc'[p] = "idle"]_vars

\* the status of the sub-game an entry is placed on
SubGameStatus(r, mode) ==
  IF mode = "FR" THEN r.frStatus
  ELSE IF mode = "SR" THEN r.srStatus
  ELSE r.forecastStatus

\* C7: no wager on a closed sub-game.  POST /place lets a request past the
\* checks on its entries only if the sub-game of every entry is pending or live.
C7_OpenSubGameOnly ==
  [][\A p \in Bettors :
       nPlace' # nPlace /\ bpc'[p] = "findUser" =>
         \A i \in 1..Len(bloc'[p].entries) :
           SubGameStatus(round, bloc'[p].entries[i].mode) \in {"pending", "live"}]_vars

\* C8: idempotence of recordResult.  When a PUT /:id/result carrying an FR
\* result is made again with the same body, nothing having written to the store
\* in between, the second call leaves the Round, the balance, the Bets and the
\* Transactions as the first call left them.
C8_RecordResultIdempotent ==
  \A a \in Admins :
    (apc[a] = "after" /\ aloc[a].repeats /\ aloc[a].body.frResult \in 0..99)
      => store = aloc[a].before

\* The repeated call has run its settlement pass after a first call that
\* settled a Bet as won and paid it.
C8_Witness ==
  \E a \in Admins :
    /\ apc[a] = "after" /\ aloc[a].repeats /\ aloc[a].body.frResult = 34
    /\ \E b \in DOMAIN bets : bets[b].status = "won" /\ credits[b] = 1

ResultKnown(x) == x \in 0..99

\* every entry of the bet is on a sub-game whose result the round holds
AllResultsKnown(b, r) ==
  \A i \in 1..Len(b.entries) :
    LET m == b.entries[i].mode
    IN /\ m \in {"FR", "FORECAST"} => ResultKnown(r.frResult)
       /\ m \in {"SR", "FORECAST"} => ResultKnown(r.srResult)

\* C9: no partial settlement.  A Bet leaves pending only in a step in which
\* the Round holds the result of the sub-game of every one of its entries; and
\* a pending Bet has totalWinAmount 0, no credit and no win Transaction.
C9_NoPartialSettlement ==
  /\ [](\A b \in DOMAIN bets :
          bets[b].status = "pending" =>
            bets[b].totalWinAmount = 0 /\ credits[b] = 0 /\ WinTxns(b) = 0)
  /\ [][\A b \in DOMAIN bets :
          bets[b].status = "pending" /\ bets'[b].status # "pending"
            => AllResultsKnown(bets[b], round)]_vars

\* A settlement pass has run over a Bet whose FR entry matches the FR result
\* while the result of its SR entry is missing, and the Bet is still pending.
C9_Witness ==
  \E a \in Admins : \E k \in 1..Len(aloc[a].bets) :
    LET b == aloc[a].bets[k].id
    IN /\ apc[a] = "after"
       /\ round.frResult = 34 /\ round.srResult = Undefined
       /\ Len(bets[b].entries) = 2
       /\ bets[b].entries[1].mode = "FR" /\ bets[b].entries[1].number = 34
       /\ bets[b].entries[2].mode = "SR"
       /\ bets[b].status = "pending" /\ credits[b] = 0

DigitsMatch(playType, n, result) ==
  IF playType = "DIRECT" THEN n = result
  ELSE IF playType = "HOUSE" THEN n \div 10 = result \div 10
  ELSE IF playType = "ENDING" THEN n % 10 = result % 10
  ELSE FALSE

\* the entry, as it was sent, wins against the results of r
RequestWins(e, r) ==
  IF e.mode = "FR" THEN DigitsMatch(e.playType, e.number, r.frResult)
  ELSE IF e.mode = "SR" THEN DigitsMatch(e.playType, e.number, r.srResult)
  ELSE IF e.playType = "DIRECT" THEN e.frNumber = r.frResult /\ e.srNumber = r.srResult
  ELSE IF e.playType = "HOUSE"
    THEN e.frNumber = r.frResult \div 10 /\ e.srNumber = r.srResult \div 10
  ELSE e.frNumber = r.frResult % 10 /\ e.srNumber = r.srResult % 10

\* the sum over the winning entries of amount x house rate
RECURSIVE ExpectedWin(_, _)
ExpectedWin(es, r) ==
  IF es = <<>> THEN 0
  ELSE (IF RequestWins(Head(es), r)
          THEN Head(es).amount * PlaceRate(Head(es).mode, Head(es).playType) ELSE 0)
       + ExpectedWin(Tail(es), r)

\* the bets a settlement pass has dealt with so far
Dealt(a) ==
  IF apc[a] \in {"loop", "after", "acCreate", "respond"}
    THEN {aloc[a].bets[k].id : k \in 1..(aloc[a].idx - 1)}
    ELSE {}

StatusFields == {"status", "frStatus", "srStatus", "forecastStatus"}

\* the place of a status in the order pending, live, finished
StatusRank(st) == IF st = "pending" THEN 0 ELSE IF st = "live" THEN 1 ELSE 2

\* C12: status monotonicity.  With the evaluator calls (read path and
\* scheduler tick) and the PUT /:id/result calls handled one at a time and the
\* clock never going back, no step moves frStatus, srStatus, forecastStatus or
\* the overall status of the Round backward in the order pending, live,
\* finished.
C12_StatusMonotonic ==
  [][\A f \in StatusFields : StatusRank(round'[f]) >= StatusRank(round[f])]_vars

\* C13: monotonic guard under concurrent writers.  In every interleaving of
\* the scheduler's tick, the read path and a PUT /:id/result on the Round, a
\* status that is stored as finished is not stored as live or pending by a
\* later save.
C13_FinishedStays ==
  [][\A f \in StatusFields : round[f] = "finished" => round'[f] = "finished"]_vars

\* C14: forecast-finished invariant.  In every reachable state,
\* forecastStatus = finished implies that frResult and srResult are both
\* numbers in 0..99.
C14_ForecastFinished ==
  round.forecastStatus = "finished" =>
    ResultKnown(round.frResult) /\ ResultKnown(round.srResult)

\* C15: round uniqueness.  In every interleaving of POST /rounds,
\* autoCreateRoundForHouse and autoCreateRounds there is at most one Round
\* per house and date.
C15_RoundUnique ==
  /\ \A i \in 1..Len(created) :
       ~(created[i].house = RoundHouse /\ created[i].date = Today)
  /\ \A i, j \in 1..Len(created) :
       created[i].house = created[j].house /\ created[i].date = created[j].date
         => i = j

\* a Round of the round's house and date d is stored
HasRoundOn(cs, d) ==
  \E i \in 1..Len(cs) : cs[i].house = RoundHouse /\ cs[i].date = d

\* a step of POST /rounds/auto-create that starts a call, or ends one
AutoAllStarts == xpc["auto"] = "idle" /\ <<xpc["auto"], xloc["auto"]>>' # <<xpc["auto"], xloc["auto"]>>

AutoAllEnds == <<xpc["auto"], xloc["auto"]>>' # <<xpc["auto"], xloc["auto"]>> /\ xpc'["auto"] = "idle"

\* C16: idempotent creation.  A call of autoCreateRounds or of
\* autoCreateRoundForHouse made while a Round of the house and of tomorrow's
\* date is stored returns at once: it creates no Round, changes none and
\* raises no error.  And a call of autoCreateRounds that follows a finished
\* one, no Round having been created in between, leaves the Rounds as they are.
C16_CreationIdempotent ==
  [][/\ HasRoundOn(created, getTomorrowDate) =>
          /\ AutoAllStarts =>
                /\ created' = created /\ round' = round
                /\ xpc'["auto"] = "idle"
                /\ xloc'["auto"].out \notin {"created", "error"}
          /\ \A a \in Admins :
                apc[a] = "after" /\ apc'[a] \in {"acCreate", "respond"} =>
                  /\ created' = created /\ round' = round
                  /\ apc'[a] = "respond"
                  /\ aloc'[a].auto \notin {"created", "error"}
     /\ AutoAllEnds /\ xloc["auto"].seen = Len(created) => created' = created]_vars

\* Both kinds of call have returned at once on finding tomorrow's Round, which
\* a POST /rounds had created; an earlier autoCreateRounds call had finished.
C16_Witness ==
  /\ Len(created) = 1 /\ HasRoundOn(created, getTomorrowDate)
  /\ xpc["auto"] = "idle" /\ xloc["auto"].out = "exists" /\ xloc["auto"].seen = 1
  /\ \E a \in Admins : apc[a] = "respond" /\ aloc[a].auto = "exists"

\* C17: next round after settlement.  Once a PUT /:id/result has returned
\* leaving both results set on the Round, its house being active with
\* auto-creation on and operating tomorrow, a Round of the house and of
\* tomorrow's date is stored, with frStatus, srStatus and forecastStatus
\* pending and a deadline.
C17_NextRoundCreated ==
  (/\ Quiet /\ lastCall.valid
   /\ ResultKnown(round.frResult) /\ ResultKnown(round.srResult)
   /\ HouseDoc(RoundHouse).isActive /\ HouseDoc(RoundHouse).autoCreateRounds
   /\ tomorrowDayOfWeek(weekday) \in HouseDoc(RoundHouse).operatingDays)
  => \E i \in 1..Len(created) :
       /\ created[i].house = RoundHouse /\ created[i].date = getTomorrowDate
       /\ created[i].frStatus = "pending" /\ created[i].srStatus = "pending"
       /\ created[i].forecastStatus = "pending"
       /\ created[i].deadline # Undefined

\* the days from today to the first operating day on or after tomorrow, within
\* seven days (0 if there is none)
DaysToNextOperating(w, days) ==
  IF \E k \in 1..7 : (w + k) % 7 \in days
    THEN CHOOSE k \in 1..7 :
           /\ (w + k) % 7 \in days
           /\ \A j \in 1..(k - 1) : (w + j) % 7 \notin days
    ELSE 0

\* C18: next operating day.  When tomorrow is not an operating day of the
\* house and some day within seven days is, a call of autoCreateRounds or of
\* autoCreateRoundForHouse has, when it returns, a Round of the house stored
\* for the first operating day after tomorrow.
C18_NextOperatingDay ==
  [][(/\ tomorrowDayOfWeek(weekday) \notin HouseDoc(RoundHouse).operatingDays
      /\ DaysToNextOperating(weekday, HouseDoc(RoundHouse).operatingDays) > 0
      /\ \/ AutoAllEnds
         \/ \E a \in Admins : apc[a] \in {"after", "acCreate"} /\ apc'[a] = "respond")
     => HasRoundOn(created', Today + DaysToNextOperating(weekday,
                                       HouseDoc(RoundHouse).operatingDays))]_vars

\* C19: rejections have no side effects.  A POST /place that is answered with
\* an error (by the checks on its body, house, round and entries, by the
\* balance check, or by the validation of the Bet) leaves the balance at its
\* value before the call and the Bets and the Transactions as they were.
C19_RejectionNoEffect ==
  [][\A p \in Bettors :
       (\/ nPlace' # nPlace /\ bpc[p] = "idle" /\ bpc'[p] = "idle"
                            /\ \A q \in Bettors : bpc'[q] = bpc[q]
        \/ bpc[p] \in {"findUser", "createBet"} /\ bpc'[p] = "idle")
       => /\ balance' = IF bpc[p] = "createBet" THEN bloc[p].balanceBefore ELSE balance
          /\ bets' = bets
          /\ txns' = txns]_vars

\* C20: round/house consistency.  A POST /place whose houseId is not the
\* house of its Round is rejected with no debit and no Bet, so that every
\* stored Bet is on the round "r1" with the house of that Round (whose rates
\* settlement then pays with).
C20_BetHouseIsRoundHouse ==
  \A b \in DOMAIN bets : bets[b].round = RoundId /\ bets[b].house = RoundHouse

\* the amounts of the first k stored entries, added up
RECURSIVE AmountsUpTo(_, _)
AmountsUpTo(es, k) == IF k = 0 THEN 0 ELSE AmountsUpTo(es, k - 1) + es[k].amount

\* C21: every stored Bet has totalAmount equal to the sum of the amounts of its
\* entries, and the stake Transaction of a Bet has amount = -totalAmount.
C21_StakeSum ==
  /\ \A b \in DOMAIN bets :
       bets[b].totalAmount = AmountsUpTo(bets[b].entries, Len(bets[b].entries))
  /\ \A t \in DOMAIN txns :
       txns[t].type = "bet" => txns[t].amount = 0 - bets[txns[t].relatedBet].totalAmount

\* a Bet of two entries is stored with its stake Transaction
C21_Witness ==
  \E b \in DOMAIN bets :
    /\ Len(bets[b].entries) = 2
    /\ \E t \in DOMAIN txns : txns[t].type = "bet" /\ txns[t].relatedBet = b

\* C22: every Transaction written by POST /place (type bet) and by settlement
\* (type win) has balanceAfter = balanceBefore + amount, whatever the
\* interleaving of the requests of the one user.
C22_TransactionRecord ==
  \A t \in DOMAIN txns :
    txns[t].type \in {"bet", "win"} =>
      txns[t].balanceAfter = txns[t].balanceBefore + txns[t].amount

\* two stake Transactions written by requests that read the same balance, and
\* a win Transaction
C22_Witness ==
  \E t, u, w \in DOMAIN txns :
    /\ t # u /\ txns[t].type = "bet" /\ txns[u].type = "bet"
    /\ txns[t].balanceBefore = txns[u].balanceBefore
    /\ txns[w].type = "win"

\* C29: the stored balance of the user is never negative, whatever the
\* interleaving of the POST /place requests of that user (each reads the
\* balance, checks it against the stake and saves the balance less the stake).
C29_BalanceNeverNegative == balance >= 0

\* two POST /place requests read the same balance, each passed the check, and
\* their stakes together exceed it: both debits are saved, both Bets stored
C29_Witness ==
  \E t, u \in DOMAIN txns :
    /\ t # u /\ txns[t].type = "bet" /\ txns[u].type = "bet"
    /\ txns[t].balanceBefore = txns[u].balanceBefore
    /\ bets[txns[t].relatedBet].totalAmount + bets[txns[u].relatedBet].totalAmount
         > txns[t].balanceBefore

\* the digits of a number written with two digits
TensDigit(n) == n \div 10

UnitsDigit(n) == n % 10

\* C23: for every bet number n and result r in 0..99, checkWinner answers
\* n = r for DIRECT, the equality of the tens digits for HOUSE and the
\* equality of the units digits for ENDING.
C23_PlayTypeRule ==
  (probe.fn = "checkWinner" /\ probe.done) =>
    (probe.out <=>
       IF probe.playType = "DIRECT" THEN probe.a = probe.frResult
       ELSE IF probe.playType = "HOUSE"
         THEN TensDigit(probe.a) = TensDigit(probe.frResult)
       ELSE UnitsDigit(probe.a) = UnitsDigit(probe.frResult))

\* checkWinner answered true on a HOUSE entry whose number and result are both
\* below 10 and differ: the padded first digits match
C23_Witness ==
  /\ probe.fn = "checkWinner" /\ probe.done /\ probe.out
  /\ probe.playType = "HOUSE"
  /\ probe.a < 10 /\ probe.frResult < 10 /\ probe.a # probe.frResult

\* C24: for every pair (a, b) a FORECAST entry carries and results
\* (frResult, srResult), the entry wins iff a = frResult and b = srResult
\* (DIRECT), the first digits of a and b are those of frResult and srResult
\* (HOUSE), the last digits of a and b are those of frResult and srResult
\* (ENDING).
C24_ForecastRule ==
  (probe.fn = "forecast" /\ probe.done) =>
    (probe.out <=>
       IF probe.playType = "DIRECT"
         THEN probe.a = probe.frResult /\ probe.b = probe.srResult
       ELSE IF probe.playType = "HOUSE"
         THEN /\ TensDigit(probe.a) = TensDigit(probe.frResult)
              /\ TensDigit(probe.b) = TensDigit(probe.srResult)
       ELSE /\ UnitsDigit(probe.a) = UnitsDigit(probe.frResult)
            /\ UnitsDigit(probe.b) = UnitsDigit(probe.srResult))

\* the Round the scheduler's tick leaves in the store when it runs at t on r
TickPersisted(r, t) ==
  IF SchedSelected(r) /\ SchedUpdated(r, t) THEN ScheduledRound(r, t) ELSE r

\* C25: run on the same stored Round at the same instant, the scheduler's tick
\* and the read-path evaluator leave the same frStatus, srStatus,
\* forecastStatus and status in the store.
C25_EvaluatorsAgree ==
  Quiet =>
    \A f \in StatusFields :
      TickPersisted(round, now)[f] = EvaluatedRound(round, now)[f]

\* C26: when a settlement pass has returned, every Bet it loaded whose entries
\* can all be processed against the Round of the pass is won or lost, also
\* when processing another Bet of the pass raised an error.
C26_FailureIsolated ==
  \A a \in Admins :
    apc[a] = "after" =>
      \A k \in 1..Len(aloc[a].bets) :
        (/\ ~BetThrows(aloc[a].bets[k].doc, aloc[a].round)
         /\ canFinalizeBet(aloc[a].bets[k].doc, aloc[a].round))
          => bets[aloc[a].bets[k].id].status \in {"won", "lost"}

\* C27: when no settlement pass is under way, every Bet that is won with
\* totalWinAmount > 0 has exactly one win Transaction, of that amount, and the
\* balance was credited for it once.
C27_WonImpliesPaid ==
  (\A a \in Admins : apc[a] \notin {"loop", "findUser", "saveUser", "createTxn"}) =>
    \A b \in DOMAIN bets :
      (bets[b].status = "won" /\ bets[b].totalWinAmount > 0) =>
        /\ WinTxns(b) = 1
        /\ \A t \in DOMAIN txns :
             (txns[t].type = "win" /\ txns[t].relatedBet = b)
               => txns[t].amount = bets[b].totalWinAmount
        /\ credits[b] = 1

\* C28: once frResult and srResult are both stored and every request has
\* returned, every stored Bet is won or lost and the Round's forecastStatus
\* and status are finished, whatever the interleaving of the
\* PUT /:id/result and POST /place requests.
C28_SettlementCompletes ==
  (Quiet /\ ResultKnown(round.frResult) /\ ResultKnown(round.srResult)) =>
    /\ \A b \in DOMAIN bets : bets[b].status \in {"won", "lost"}
    /\ round.forecastStatus = "finished"
    /\ round.status = "finished"

\* C30: for every Bet that is won or lost, the isWinner flag of each FR and SR
\* entry is what its play-type rule gives against the frResult and srResult
\* the Round stores now.
C30_SettledAgreesWithResult ==
  \A b \in DOMAIN bets :
    bets[b].status \in {"won", "lost"} =>
      \A i \in 1..Len(bets[b].entries) :
        LET e == bets[b].entries[i]
        IN /\ e.mode = "FR" =>
                (e.isWinner <=> /\ ResultKnown(round.frResult)
                                /\ DigitsMatch(e.playType, e.number, round.frResult))
           /\ e.mode = "SR" =>
                (e.isWinner <=> /\ ResultKnown(round.srResult)
                                /\ DigitsMatch(e.playType, e.number, round.srResult))

=============================================================================
